---- MODULE Spec2Model ----
(***************************************************************************)
(* A model of the webvtt crate (src/src/lib.rs): parse_file and the block  *)
(* recogniser as a state machine over the line cursor, parse_timestamp,    *)
(* parse_cue_timings_settings and parse_settings as operators.             *)
(*                                                                         *)
(* Text is a sequence of one-character strings.  A u64 is the tuple of its *)
(* 8 bytes, least significant first, so that parsing and arithmetic keep   *)
(* the width of the Rust type.                                             *)
(***************************************************************************)
EXTENDS Integers, Sequences, FiniteSets, TLC

VARIABLES
    overflow_checks, \* build profile: TRUE = arithmetic overflow panics (debug)
    call,            \* the function under call and its argument
    ret,             \* what the call returned (or the panic that ended it)
    lines,           \* parse_file: the rest of the peekable line cursor
    pc,              \* parse_file: position in the control flow
    description,     \* parse_file: local `description`
    blocks,          \* parse_file: local `blocks`
    file_ctx,        \* parse_file: local `file_ctx`
    block_ctx,       \* parse_block: local `block_ctx`
    block_lines,     \* history: the lines parse_block has taken for this block
    block_log        \* history: per finished block, its lines and its result

vars == <<overflow_checks, call, ret, lines, pc, description, blocks,
          file_ctx, block_ctx, block_lines, block_log>>

-----------------------------------------------------------------------------
(* Text helpers: the str methods the crate uses.                           *)

\* char::is_ascii_digit
IsAsciiDigit(c) == c \in {"0", "1", "2", "3", "4", "5", "6", "7", "8", "9"}

\* the value of an ASCII digit (char::to_digit)
DigitVal(c) ==
    CASE c = "0" -> 0 [] c = "1" -> 1 [] c = "2" -> 2 [] c = "3" -> 3
      [] c = "4" -> 4 [] c = "5" -> 5 [] c = "6" -> 6 [] c = "7" -> 7
      [] c = "8" -> 8 [] c = "9" -> 9

\* char::is_whitespace, for the characters a line can hold here
IsWhitespace(c) == c \in {" ", "\t", "\r"}

\* str::starts_with
StartsWith(s, p) == Len(s) >= Len(p) /\ SubSeq(s, 1, Len(p)) = p

\* the text after the first n characters
Drop(s, n) == SubSeq(s, n + 1, Len(s))

\* str::contains
Contains(s, p) == \E i \in 1..(Len(s) - Len(p) + 1) : SubSeq(s, i, i + Len(p) - 1) = p

\* the least element of a non-empty set of integers
Min(S) == CHOOSE i \in S : \A j \in S : i <= j

\* str::trim_start
TrimStart(s) ==
    LET keep == {i \in 1..Len(s) : ~IsWhitespace(s[i])}
    IN  IF keep = {} THEN <<>> ELSE SubSeq(s, Min(keep), Len(s))

\* str::split(ch): the pieces between the occurrences of ch (never empty)
Split(s, ch) ==
    LET at     == {i \in 1..Len(s) : s[i] = ch}
        n      == Cardinality(at)
        pos(k) == IF k = 0 THEN 0
                  ELSE IF k = n + 1 THEN Len(s) + 1
                  ELSE CHOOSE i \in at : Cardinality({j \in at : j < i}) = k - 1
        piece(k) == SubSeq(s, pos(k - 1) + 1, pos(k) - 1)
    IN  SubSeq([k \in 1..(n + 1) |-> piece(k)], 1, n + 1)

\* str::split_once(ch): where the first ch is, 0 when there is none
IndexOf(s, ch) ==
    LET at == {i \in 1..Len(s) : s[i] = ch}
    IN  IF at = {} THEN 0 ELSE Min(at)

-----------------------------------------------------------------------------
(* u64: 8 bytes, least significant first.                                  *)

U64Bytes == 8
Byte == 256

U64Zero == <<0, 0, 0, 0, 0, 0, 0, 0>>

\* the bytes of a natural, least significant first, padded with zeros to n bytes
RECURSIVE BytesOf(_, _)
BytesOf(v, n) == IF n = 0 THEN <<>> ELSE <<v % Byte>> \o BytesOf(v \div Byte, n - 1)

\* a natural below 2^31 as a u64
U64From(v) == BytesOf(v, U64Bytes)

\* the bytes of x * m + c, then the carry out of the last byte
RECURSIVE MulCarry(_, _, _)
MulCarry(x, m, c) ==
    IF x = <<>> THEN <<c>>
    ELSE LET t == Head(x) * m + c
         IN  <<t % Byte>> \o MulCarry(Tail(x), m, t \div Byte)

\* the bytes of x + y + c, then the carry out of the last byte
RECURSIVE AddCarry(_, _, _)
AddCarry(x, y, c) ==
    IF x = <<>> THEN <<c>>
    ELSE LET t == Head(x) + Head(y) + c
         IN  <<t % Byte>> \o AddCarry(Tail(x), Tail(y), t \div Byte)

\* x * m for a u64 x and a factor m < 2^23: the wrapped product and whether
\* the true product left the 64 bits (u64::overflowing_mul)
OverflowingMul(x, m) ==
    LET r == MulCarry(x, m, 0)
    IN  [val |-> SubSeq(r, 1, U64Bytes), overflow |-> r[U64Bytes + 1] > 0]

\* x + y for two u64 (u64::overflowing_add)
OverflowingAdd(x, y) ==
    LET r == AddCarry(x, y, 0)
    IN  [val |-> SubSeq(r, 1, U64Bytes), overflow |-> r[U64Bytes + 1] > 0]

\* x >= n where the code has x > n
U64AtLeast(x, n) == x[1] >= n \/ \E i \in 2..U64Bytes : x[i] # 0

\* x > n for a u64 x and a natural n < 256
U64GreaterThan(x, n) == x[1] > n \/ \E i \in 2..U64Bytes : x[i] # 0

\* str::parse::<u64> on a run of ASCII digits: each digit is folded in with
\* checked_mul(10) and checked_add(digit); an overflow makes the parse fail.
RECURSIVE ParseU64From(_, _)
ParseU64From(buf, acc) ==
    IF buf = <<>> THEN [ok |-> TRUE, val |-> acc]
    ELSE LET m == OverflowingMul(acc, 10)
             a == OverflowingAdd(m.val, U64From(DigitVal(Head(buf))))
         IN  IF m.overflow \/ a.overflow
             THEN [ok |-> FALSE, val |-> U64Zero]
             ELSE ParseU64From(Tail(buf), a.val)

ParseU64(buf) ==
    IF buf = <<>> THEN [ok |-> FALSE, val |-> U64Zero] ELSE ParseU64From(buf, U64Zero)

-----------------------------------------------------------------------------
(* parse_timestamp                                                         *)

None == [kind |-> "None"]
Panic(msg) == [kind |-> "Panic", msg |-> msg]

\* one "parse digits" loop: the index of the first character from i on that is
\* not an ASCII digit, Len(line) + 1 when the text ends first
DigitRunEnd(line, i) ==
    LET stop == {j \in i..Len(line) : ~IsAsciiDigit(line[j])}
    IN  IF stop = {} THEN Len(line) + 1 ELSE Min(stop)

\* the match on `places` and Duration::from_millis: hours are present exactly
\* when four places were pushed.  An overflowing operation panics when the
\* build checks overflow and wraps when it does not.
MillisOf(places, oc) ==
    LET n       == Len(places)
        millis  == places[n]
        seconds == OverflowingMul(places[n - 1], 1000)
        minutes == OverflowingMul(places[n - 2], 60000)
        s1      == OverflowingAdd(millis, seconds.val)
        s2      == OverflowingAdd(s1.val, minutes.val)
        hours   == IF n = 4 THEN OverflowingMul(places[1], 3600000)
                   ELSE [val |-> U64Zero, overflow |-> FALSE]
        s3      == IF n = 4 THEN OverflowingAdd(s2.val, hours.val)
                   ELSE [val |-> s2.val, overflow |-> FALSE]
        ovf     == seconds.overflow \/ minutes.overflow \/ s1.overflow
                   \/ s2.overflow \/ hours.overflow \/ s3.overflow
    IN  IF ovf /\ oc THEN [ok |-> FALSE, val |-> U64Zero]
        ELSE [ok |-> TRUE, val |-> s3.val]

\* the remainder handed back with its leading whitespace trimmed
TimestampMillisTrimmed(line, i, places, oc) ==
    LET e   == DigitRunEnd(line, i)
        buf == SubSeq(line, i, e - 1)
    IN  IF Len(buf) # 3 THEN None
        ELSE LET ms == MillisOf(Append(places, ParseU64(buf).val), oc)
             IN  IF ~ms.ok THEN Panic("arithmetic overflow")
                 ELSE [kind |-> "Some", millis |-> ms.val,
                       rest |-> TrimStart(SubSeq(line, e, Len(line)))]

\* lines 334-368: the milliseconds run from index i on, and the result
TimestampMillis(line, i, places, oc) ==
    LET e   == DigitRunEnd(line, i)
        buf == SubSeq(line, i, e - 1)
    IN  IF Len(buf) # 3 THEN None
        ELSE LET ms == MillisOf(Append(places, ParseU64(buf).val), oc)
             IN  IF ~ms.ok THEN Panic("arithmetic overflow")
                 ELSE [kind |-> "Some", millis |-> ms.val,
                       rest |-> SubSeq(line, e, Len(line))]

\* lines 298-332: the optional third field, then the decimal point
TimestampSeconds(line, e2, has_hours, places, oc) ==
    IF has_hours \/ line[e2] = ":"
    THEN LET e3  == DigitRunEnd(line, e2 + 1)
             buf == SubSeq(line, e2 + 1, e3 - 1)
         IN  IF e3 > Len(line) THEN None
             ELSE IF Len(buf) # 2 THEN None
             ELSE IF U64GreaterThan(ParseU64(buf).val, 59) THEN None
             ELSE IF line[e3] # "." THEN None
             ELSE TimestampMillis(line, e3 + 1, Append(places, ParseU64(buf).val), oc)
    ELSE IF line[e2] # "." THEN None
    ELSE TimestampMillis(line, e2 + 1, places, oc)

\* lines 271-296: the second field
TimestampMinutes(line, e1, has_hours, places, oc) ==
    LET e2  == DigitRunEnd(line, e1 + 1)
        buf == SubSeq(line, e1 + 1, e2 - 1)
    IN  IF e2 > Len(line) THEN None
        ELSE IF Len(buf) # 2 THEN None
        ELSE IF U64GreaterThan(ParseU64(buf).val, 59) THEN None
        ELSE TimestampSeconds(line, e2, has_hours,
                              Append(places, ParseU64(buf).val), oc)

\* parse_timestamp(line): None, Some(millis, rest), or a panic
ParseTimestamp(line, oc) ==
    LET e1  == DigitRunEnd(line, 1)
        buf == SubSeq(line, 1, e1 - 1)
    IN  IF e1 > Len(line) THEN None
        ELSE IF buf = <<>> \/ line[e1] # ":" THEN None
        ELSE LET num == ParseU64(buf)
             IN  IF ~num.ok THEN Panic("unwrap on ParseIntError")
                 ELSE TimestampMinutes(line, e1,
                                       U64GreaterThan(num.val, 59) \/ Len(buf) # 2,
                                       <<num.val>>, oc)

-----------------------------------------------------------------------------
(* parse_settings and parse_cue_timings_settings                           *)

\* Option<String>
NoString == [some |-> FALSE]
SomeString(s) == [some |-> TRUE, val |-> s]

\* CueSettings::default()
DefaultSettings == [region |-> NoString, writing_direction |-> "Horizontal"]

\* a token with an empty value applied like any other
ApplySettingEmptyValue(settings, setting) ==
    LET colon == IndexOf(setting, ":")
        key   == SubSeq(setting, 1, colon - 1)
        value == Drop(setting, colon)
    IN  IF colon = 0 \/ key = <<>> THEN settings
        ELSE IF key = <<"r", "e", "g", "i", "o", "n">>
             THEN [settings EXCEPT !.region = SomeString(value)]
        ELSE IF key = <<"v", "e", "r", "t", "i", "c", "a", "l">>
             THEN IF value = <<"l", "r">>
                  THEN [settings EXCEPT !.writing_direction = "VerticalLeft"]
                  ELSE IF value = <<"r", "l">>
                  THEN [settings EXCEPT !.writing_direction = "VerticalRight"]
                  ELSE settings
        ELSE settings

\* the body of the `for setting in line.split(' ')` loop
ApplySetting(settings, setting) ==
    LET colon == IndexOf(setting, ":")
        key   == SubSeq(setting, 1, colon - 1)
        value == Drop(setting, colon)
    IN  IF colon = 0 \/ key = <<>> \/ value = <<>> THEN settings
        ELSE IF key = <<"r", "e", "g", "i", "o", "n">>
             THEN [settings EXCEPT !.region = SomeString(value)]
        ELSE IF key = <<"v", "e", "r", "t", "i", "c", "a", "l">>
             THEN IF value = <<"l", "r">>
                  THEN [settings EXCEPT !.writing_direction = "VerticalLeft"]
                  ELSE IF value = <<"r", "l">>
                  THEN [settings EXCEPT !.writing_direction = "VerticalRight"]
                  ELSE settings
        ELSE settings

RECURSIVE ApplySettings(_, _)
ApplySettings(settings, tokens) ==
    IF tokens = <<>> THEN settings
    ELSE ApplySettings(ApplySetting(settings, Head(tokens)), Tail(tokens))

\* the settings as the loop left them, a region kept beside a vertical direction
KeepVerticalRegion(settings) == settings

\* lines 224-227: there are no vertical regions
ClearVerticalRegion(settings) ==
    IF settings.writing_direction # "Horizontal"
    THEN [settings EXCEPT !.region = NoString]
    ELSE settings

\* parse_settings(line)
ParseSettings(line) ==
    ClearVerticalRegion(ApplySettings(DefaultSettings, Split(line, " ")))

Arrow == <<"-", "-", ">">>

\* lines 192-195: the end timestamp and the settings after it
TimingsEnd(start_time, end_time) ==
    IF end_time.kind # "Some" THEN end_time
    ELSE [kind |-> "Some",
          start |-> start_time.millis,
          end |-> end_time.millis,
          settings |-> ParseSettings(end_time.rest)]

\* lines 188-192: the arrow, then the end timestamp
TimingsArrow(start_time, after, oc) ==
    IF ~StartsWith(after, Arrow) THEN None
    ELSE TimingsEnd(start_time, ParseTimestamp(TrimStart(Drop(after, 3)), oc))

\* lines 186-188: `?` on the start timestamp
TimingsStart(start_time, oc) ==
    IF start_time.kind # "Some" THEN start_time
    ELSE TimingsArrow(start_time, TrimStart(start_time.rest), oc)

\* parse_cue_timings_settings(line): None, Some(start, end, settings), or the
\* panic of one of its two parse_timestamp calls
ParseCueTimingsSettings(line, oc) ==
    TimingsStart(ParseTimestamp(TrimStart(line), oc), oc)

-----------------------------------------------------------------------------
(* parse_file and parse_block                                              *)

Pending == [kind |-> "Pending"]
Err(e) == [kind |-> "Err", error |-> e]
Ok(v) == [kind |-> "Ok", val |-> v]

Magic == <<"W", "E", "B", "V", "T", "T">>

\* skip_blank_lines: the cursor after the leading empty lines are taken
RECURSIVE SkipBlankLines(_)
SkipBlankLines(ls) ==
    IF ls # <<>> /\ Head(ls) = <<>> THEN SkipBlankLines(Tail(ls)) ELSE ls

\* the error of the next check where the code passes NoMagic
ExpectStrBadHeader(input, pattern, error) ==
    IF StartsWith(input, pattern) THEN Ok(Drop(input, Len(pattern)))
    ELSE Err("BadHeader")

\* UnexpectedEof where the input ends inside the pattern
ExpectStrEof(input, pattern, error) ==
    IF StartsWith(input, pattern) THEN Ok(Drop(input, Len(pattern)))
    ELSE IF StartsWith(pattern, input) THEN Err("UnexpectedEof")
    ELSE Err(error)

\* expect_str(line, "WEBVTT", NoMagic)
ExpectStr(input, pattern, error) ==
    IF StartsWith(input, pattern) THEN Ok(Drop(input, Len(pattern))) ELSE Err(error)

\* every leading separator stripped where the code strips one
ExpectCharTrimAll(input, pattern, error) ==
    IF input # <<>> /\ Head(input) \in pattern THEN Ok(TrimStart(input)) ELSE Err(error)

\* expect_char(line, &[' ', '\t'], BadHeader)
ExpectChar(input, pattern, error) ==
    IF input # <<>> /\ Head(input) \in pattern THEN Ok(Tail(input)) ELSE Err(error)

\* BlockContext at the start of parse_block
NewBlockContext ==
    [line_count |-> 0, seen_eof |-> FALSE, seen_arrow |-> FALSE,
     cue |-> [some |-> FALSE], buffer |-> <<>>]

\* start and end taken from each other's timestamp
NewCueSwapped(id, start, end, settings) ==
    [start |-> end, end |-> start, id |-> id, text |-> <<>>, settings |-> settings]

\* Cue { id, start, end, settings, ..Default::default() }
NewCue(id, start, end, settings) ==
    [start |-> start, end |-> end, id |-> id, text |-> <<>>, settings |-> settings]

\* lines 71-88: the signature line, the description, the blank lines after it
ParseHeader ==
    /\ pc = "start"
    /\ LET all   == Split(call.arg, "\n")
           magic == ExpectStr(Head(all), Magic, "NoMagic")
           sep   == ExpectChar(magic.val, {" ", "\t"}, "BadHeader")
       IN  IF magic.kind = "Err"
           THEN /\ ret' = magic
                /\ pc' = "done"
                /\ UNCHANGED <<lines, description, file_ctx>>
           ELSE IF magic.val # <<>> /\ sep.kind = "Err"
           THEN /\ ret' = sep
                /\ pc' = "done"
                /\ UNCHANGED <<lines, description, file_ctx>>
           ELSE /\ description' = IF magic.val # <<>> THEN SomeString(sep.val)
                                  ELSE NoString
                /\ lines' = SkipBlankLines(Tail(all))
                /\ file_ctx' = [in_header |-> FALSE, seen_cue |-> FALSE]
                /\ pc' = "loop"
                /\ ret' = ret
    /\ UNCHANGED <<overflow_checks, call, blocks, block_ctx, block_lines, block_log>>

\* line 92 true, lines 118-125: parse_block is entered
BeginBlock ==
    /\ pc = "loop"
    /\ lines # <<>>
    /\ block_ctx' = NewBlockContext
    /\ block_lines' = <<>>
    /\ pc' = "block"
    /\ UNCHANGED <<overflow_checks, call, ret, lines, description, blocks,
                   file_ctx, block_log>>

\* lines 127-129: `lines.next()` and the two counters
TakeLine(ctx) ==
    [ctx EXCEPT !.line_count = @ + 1, !.seen_eof = (Tail(lines) = <<>>)]

\* seen_arrow kept only when the candidate line parsed
TimingStepForgets(ctx, res) ==
    IF res.kind = "Panic"
    THEN /\ ret' = res
         /\ pc' = "done"
         /\ block_ctx' = ctx
    ELSE /\ block_ctx' =
               IF res.kind = "Some"
               THEN [ctx EXCEPT
                       !.buffer = <<>>,
                       !.cue = [some |-> TRUE,
                                val |-> NewCue(ctx.buffer, res.start, res.end,
                                               res.settings)]]
               ELSE [ctx EXCEPT !.seen_arrow = FALSE]
         /\ UNCHANGED <<ret, pc>>

\* lines 138-150: the outcome of parse_cue_timings_settings on a candidate line
TimingStep(ctx, res) ==
    IF res.kind = "Panic"
    THEN /\ ret' = res
         /\ pc' = "done"
         /\ block_ctx' = ctx
    ELSE /\ block_ctx' =
               IF res.kind = "Some"
               THEN [ctx EXCEPT
                       !.buffer = <<>>,
                       !.cue = [some |-> TRUE,
                                val |-> NewCue(ctx.buffer, res.start, res.end,
                                               res.settings)]]
               ELSE ctx
         /\ UNCHANGED <<ret, pc>>

\* the timing parser tried on every line that contains "-->", wherever it is
ArrowLineAnyLine ==
    /\ pc = "block"
    /\ lines # <<>>
    /\ Contains(Head(lines), Arrow)
    /\ IF ~file_ctx.in_header
       THEN TimingStep([TakeLine(block_ctx) EXCEPT !.seen_arrow = TRUE],
                       ParseCueTimingsSettings(Head(lines), overflow_checks))
       ELSE /\ block_ctx' = TakeLine(block_ctx)
            /\ UNCHANGED <<ret, pc>>
    /\ lines' = Tail(lines)
    /\ block_lines' = Append(block_lines, Head(lines))
    /\ UNCHANGED <<overflow_checks, call, description, blocks, file_ctx, block_log>>

\* lines 131-152: a line that contains "-->"
ArrowLine ==
    /\ pc = "block"
    /\ lines # <<>>
    /\ Contains(Head(lines), Arrow)
    /\ IF /\ ~file_ctx.in_header
          /\ \/ block_ctx.line_count + 1 = 1
             \/ (block_ctx.line_count + 1 = 2 /\ ~block_ctx.seen_arrow)
       THEN TimingStep([TakeLine(block_ctx) EXCEPT !.seen_arrow = TRUE],
                       ParseCueTimingsSettings(Head(lines), overflow_checks))
       ELSE /\ block_ctx' = TakeLine(block_ctx)
            /\ UNCHANGED <<ret, pc>>
    /\ lines' = Tail(lines)
    /\ block_lines' = Append(block_lines, Head(lines))
    /\ UNCHANGED <<overflow_checks, call, description, blocks, file_ctx, block_log>>

\* the empty line peeked at and left in the cursor
BlankLinePeeked ==
    /\ pc = "block"
    /\ lines # <<>>
    /\ Head(lines) = <<>>
    /\ pc' = "return"
    /\ UNCHANGED <<overflow_checks, call, ret, lines, description, blocks,
                   file_ctx, block_ctx, block_lines, block_log>>

\* lines 153-154: an empty line ends the block
BlankLine ==
    /\ pc = "block"
    /\ lines # <<>>
    /\ Head(lines) = <<>>
    /\ block_ctx' = TakeLine(block_ctx)
    /\ lines' = Tail(lines)
    /\ block_lines' = Append(block_lines, Head(lines))
    /\ pc' = "return"
    /\ UNCHANGED <<overflow_checks, call, ret, description, blocks, file_ctx,
                   block_log>>

\* lines 155-173: any other line
TextLine ==
    /\ pc = "block"
    /\ lines # <<>>
    /\ ~Contains(Head(lines), Arrow)
    /\ Head(lines) # <<>>
    /\ LET line == Head(lines)
           ctx  == TakeLine(block_ctx)
           look == ~file_ctx.in_header /\ ctx.line_count = 2 /\ ~file_ctx.seen_cue
       IN  IF look /\ StartsWith(ctx.buffer, <<"S", "T", "Y", "L", "E">>)
           THEN /\ ret' = Panic("not implemented: WebVTT styles are unimplemented")
                /\ pc' = "done"
                /\ block_ctx' = ctx
           ELSE IF look /\ StartsWith(ctx.buffer, <<"R", "E", "G", "I", "O", "N">>)
           THEN /\ ret' = Panic("not implemented: WebVTT regions are unimplemented")
                /\ pc' = "done"
                /\ block_ctx' = ctx
           ELSE /\ block_ctx' =
                      [ctx EXCEPT !.buffer =
                          (IF ctx.buffer # <<>> THEN Append(ctx.buffer, "\n")
                           ELSE ctx.buffer) \o line]
                /\ UNCHANGED <<ret, pc>>
    /\ lines' = Tail(lines)
    /\ block_lines' = Append(block_lines, Head(lines))
    /\ UNCHANGED <<overflow_checks, call, description, blocks, file_ctx, block_log>>

\* line 127: `lines.next()` is None, the loop of parse_block ends
EndOfInput ==
    /\ pc = "block"
    /\ lines = <<>>
    /\ pc' = "return"
    /\ UNCHANGED <<overflow_checks, call, ret, lines, description, blocks,
                   file_ctx, block_ctx, block_lines, block_log>>

\* lines 176-181: what parse_block returns
BlockResult(ctx) ==
    IF ctx.cue.some
    THEN [some |-> TRUE,
          val |-> [type |-> "Cue", cue |-> [ctx.cue.val EXCEPT !.text = ctx.buffer]]]
    ELSE [some |-> FALSE]

\* the block put in front of the ones already kept
ReturnBlockPrepends ==
    /\ pc = "return"
    /\ LET block == BlockResult(block_ctx)
       IN  /\ blocks' = IF block.some THEN <<block.val>> \o blocks ELSE blocks
           /\ block_log' = Append(block_log, [lines |-> block_lines, block |-> block])
    /\ lines' = SkipBlankLines(lines)
    /\ pc' = "loop"
    /\ UNCHANGED <<overflow_checks, call, ret, description, file_ctx, block_ctx,
                   block_lines>>

\* lines 176-181 and 93-97: parse_block returns, the driver keeps the block
\* and skips the blank lines that follow
ReturnBlock ==
    /\ pc = "return"
    /\ LET block == BlockResult(block_ctx)
       IN  /\ blocks' = IF block.some THEN Append(blocks, block.val) ELSE blocks
           /\ block_log' = Append(block_log, [lines |-> block_lines, block |-> block])
    /\ lines' = SkipBlankLines(lines)
    /\ pc' = "loop"
    /\ UNCHANGED <<overflow_checks, call, ret, description, file_ctx, block_ctx,
                   block_lines>>

\* line 92 false, lines 100-103: the File is returned
Finish ==
    /\ pc = "loop"
    /\ lines = <<>>
    /\ ret' = Ok([description |-> description, blocks |-> blocks])
    /\ pc' = "done"
    /\ UNCHANGED <<overflow_checks, call, lines, description, blocks, file_ctx,
                   block_ctx, block_lines, block_log>>

-----------------------------------------------------------------------------
(* parse_file and parse_block once more, as functions of the text: what a  *)
(* call returns, with the steps above folded over the lines.               *)

\* what parse_block hands back: the block, if any, and the cursor it leaves
Returned(block, ls) == [kind |-> "Return", block |-> block, lines |-> ls]

\* lines 128-129: the counters after `lines.next()` has taken the head of ls
NextLine(ctx, ls) ==
    [ctx EXCEPT !.line_count = @ + 1, !.seen_eof = (Tail(ls) = <<>>)]

\* lines 168-172: a text line is pushed to the buffer
PushLine(ctx, line) ==
    [ctx EXCEPT !.buffer =
        (IF ctx.buffer # <<>> THEN Append(ctx.buffer, "\n") ELSE ctx.buffer) \o line]

\* lines 138-150: the candidate cue of a timing line
WithCue(ctx, res) ==
    IF res.kind = "Some"
    THEN [ctx EXCEPT !.buffer = <<>>,
                     !.cue = [some |-> TRUE,
                              val |-> NewCue(ctx.buffer, res.start, res.end,
                                             res.settings)]]
    ELSE ctx

\* lines 127-181: parse_block from the cursor ls on, in the state ctx
RECURSIVE ParseBlockFrom(_, _, _, _)
RECURSIVE ParseBlockTiming(_, _, _, _, _)

ParseBlockTiming(ls, file, ctx, res, oc) ==
    IF res.kind = "Panic" THEN res
    ELSE ParseBlockFrom(Tail(ls), file, WithCue(ctx, res), oc)

ParseBlockFrom(ls, file, ctx, oc) ==
    IF ls = <<>> THEN Returned(BlockResult(ctx), ls)
    ELSE IF Contains(Head(ls), Arrow)
    THEN IF /\ ~file.in_header
            /\ \/ ctx.line_count + 1 = 1
               \/ (ctx.line_count + 1 = 2 /\ ~ctx.seen_arrow)
         THEN ParseBlockTiming(ls, file,
                               [NextLine(ctx, ls) EXCEPT !.seen_arrow = TRUE],
                               ParseCueTimingsSettings(Head(ls), oc), oc)
         ELSE ParseBlockFrom(Tail(ls), file, NextLine(ctx, ls), oc)
    ELSE IF Head(ls) = <<>>
    THEN Returned(BlockResult(NextLine(ctx, ls)), Tail(ls))
    ELSE IF /\ ~file.in_header /\ ctx.line_count + 1 = 2 /\ ~file.seen_cue
            /\ StartsWith(ctx.buffer, <<"S", "T", "Y", "L", "E">>)
    THEN Panic("not implemented: WebVTT styles are unimplemented")
    ELSE IF /\ ~file.in_header /\ ctx.line_count + 1 = 2 /\ ~file.seen_cue
            /\ StartsWith(ctx.buffer, <<"R", "E", "G", "I", "O", "N">>)
    THEN Panic("not implemented: WebVTT regions are unimplemented")
    ELSE ParseBlockFrom(Tail(ls), file, PushLine(NextLine(ctx, ls), Head(ls)), oc)

\* parse_block(lines, file_ctx)
ParseBlock(ls, file, oc) == ParseBlockFrom(ls, file, NewBlockContext, oc)

\* lines 92-103: the loop of parse_file and the File it returns
RECURSIVE ParseBlocks(_, _, _, _, _)
RECURSIVE ParseBlocksNext(_, _, _, _, _)

ParseBlocksNext(r, file, descr, bs, oc) ==
    IF r.kind = "Panic" THEN r
    ELSE ParseBlocks(SkipBlankLines(r.lines), file, descr,
                     IF r.block.some THEN Append(bs, r.block.val) ELSE bs, oc)

ParseBlocks(ls, file, descr, bs, oc) ==
    IF ls = <<>> THEN Ok([description |-> descr, blocks |-> bs])
    ELSE ParseBlocksNext(ParseBlock(ls, file, oc), file, descr, bs, oc)

\* lines 76-88: the description, then the blocks
ParseFileBody(rest, all, oc) ==
    IF rest # <<>> /\ ExpectChar(rest, {" ", "\t"}, "BadHeader").kind = "Err"
    THEN ExpectChar(rest, {" ", "\t"}, "BadHeader")
    ELSE ParseBlocks(SkipBlankLines(Tail(all)),
                     [in_header |-> FALSE, seen_cue |-> FALSE],
                     IF rest # <<>>
                     THEN SomeString(ExpectChar(rest, {" ", "\t"}, "BadHeader").val)
                     ELSE NoString,
                     <<>>, oc)

\* lines 71-74: the signature
ParseFileLines(all, oc) ==
    IF ExpectStr(Head(all), Magic, "NoMagic").kind = "Err"
    THEN ExpectStr(Head(all), Magic, "NoMagic")
    ELSE ParseFileBody(ExpectStr(Head(all), Magic, "NoMagic").val, all, oc)

\* parse_file(input): Err, Ok(File), or the panic that ends the call
ParseFile(input, oc) == ParseFileLines(Split(input, "\n"), oc)

-----------------------------------------------------------------------------
(* The inputs of the calls.                                                *)

MaxBodyLines == 4
MaxHourDigits == 21
MaxTokens == 3

\* the pieces joined with sep between them (the inverse of split)
RECURSIVE Join(_, _)
Join(pieces, sep) ==
    IF pieces = <<>> THEN <<>>
    ELSE IF Len(pieces) = 1 THEN pieces[1]
    ELSE pieces[1] \o sep \o Join(Tail(pieces), sep)

\* all sequences of at most n elements of S
SeqsUpTo(S, n) == UNION {[1..k -> S] : k \in 0..n}

\* c repeated n times
Rep(c, n) == [i \in 1..n |-> c]

\* first lines: the signature alone, with a description, with a bad
\* continuation, too short, missing
HeaderLines ==
    {Magic, <<"W", "E", "B", "V", "T", "T", " ", " ", "x">>, <<"W", "E", "B", "V", "T", "T", "\t", "x">>,
     <<"W", "E", "B", "V", "T", "T", "x">>, <<"W", "E", "B">>, <<"v", "t", "t">>, <<>>}

TimingLine == <<"0", "0", ":", "0", "1", ".", "0", "0", "0", " ", "-", "-", ">", " ", "0", "0", ":", "0", "0", ":", "0", "2", ".", "0", "0", "0">>
TimingLineSettings ==
    <<" ", " ", "1", ":", "0", "0", ":", "0", "1", ".", "0", "0", "0", "-", "-", ">", "0", "1", ":", "0", "2", ".", "5", "0", "0", " ", "r", "e", "g", "i", "o", "n", ":", "f", "r", "e", "d", " ", "v", "e", "r", "t", "i", "c", "a", "l", ":", "r", "l">>
TimingLineHuge ==
    <<"9", "9", "9", "9", "9", "9", "9", "9", "9", "9", "9", "9", "9", ":", "0", "0", ":", "0", "0", ".", "0", "0", "0", " ", "-", "-", ">", " ", "0", "0", ":", "0", "2", ".", "0", "0", "0">>

TimingLineTooLong ==
    <<"9", "9", "9", "9", "9", "9", "9", "9", "9", "9", "9", "9", "9", "9", "9", "9", "9", "9", "9", "9", ":", "0", "0", ":", "0", "0", ".", "0", "0", "0", " ", "-", "-", ">", " ", "0", "0", ":", "0", "2", ".", "0", "0", "0">>

\* the lines after the first: the common ones, and all of them
CoreLines == {<<>>, <<"H", "i">>, <<"a">>, <<"S", "T", "Y", "L", "E">>, <<"b", " ", "-", "-", ">", " ", "c">>, TimingLine}

BodyLines ==
    CoreLines \cup {<<"R", "E", "G", "I", "O", "N", " ", "r">>, TimingLineSettings, TimingLineHuge,
                    TimingLineTooLong}

\* the signature line followed by up to MaxBodyLines common lines, and every
\* first line followed by up to MaxBodyLines - 2 lines of any kind
Documents ==
    {Join(<<Magic>> \o b, <<"\n">>) : b \in SeqsUpTo(CoreLines, MaxBodyLines)}
    \cup {Join(<<h>> \o b, <<"\n">>) :
            h \in HeaderLines, b \in SeqsUpTo(BodyLines, MaxBodyLines - 2)}

\* documents of at most MaxBodyLines lines without a digit after the
\* signature line
LightLines == CoreLines \ {TimingLine}

LightDocuments ==
    {Join(<<Magic>> \o b, <<"\n">>) : b \in SeqsUpTo(LightLines, MaxBodyLines)}

\* timestamp texts: every way to put these fields and separators together,
\* and hours of every digit count up to MaxHourDigits
ShapeInputs ==
    {f1 \o s1 \o f2 \o s2 \o f3 \o s3 \o ms \o t :
        f1 \in {<<>>, <<"2">>, <<"0", "2">>, <<"6", "0">>, <<"1", "1", "1">>},
        s1 \in {<<":">>, <<".">>},
        f2 \in {<<"3", "1">>, <<"6", "0">>, <<"5">>},
        s2 \in {<<>>, <<":">>, <<".">>, <<"x">>},
        f3 \in {<<>>, <<"0", "2">>},
        s3 \in {<<>>, <<":">>, <<".">>},
        ms \in {<<>>, <<"5", "0", "0">>, <<"5", "0", "0", "1">>, <<"3", "1", ".", "5", "0", "0">>},
        t  \in {<<>>, <<" ", "-", ">", " ", "0", "3", ":", "3", "1", ".", "5", "0", "0">>}}

HoursInputs ==
    {Rep(d, n) \o <<":">> \o mm \o <<":">> \o ss \o <<".">> \o ms :
        d \in {"0", "1", "9"}, n \in 1..MaxHourDigits,
        mm \in {<<"0", "0">>, <<"5", "9">>, <<"5">>}, ss \in {<<"0", "0">>, <<"5", "9">>},
        ms \in {<<"0", "0", "0">>, <<"9", "9", "9">>}}

TwoFieldInputs ==
    {mm \o <<":">> \o ss \o <<".">> \o ms :
        mm \in {<<"0", "0">>, <<"0", "9">>, <<"3", "1">>, <<"5", "9">>, <<"6", "0">>},
        ss \in {<<"0", "0">>, <<"0", "9">>, <<"3", "1">>, <<"5", "9">>, <<"6", "0">>},
        ms \in {<<"0", "0", "0">>, <<"0", "0", "7">>, <<"5", "0", "0">>, <<"9", "9", "9">>}}

TimestampInputs == ShapeInputs \cup HoursInputs \cup TwoFieldInputs

\* settings texts: every sequence of at most MaxTokens of these tokens
SettingTokens ==
    {<<>>, <<"r", "e", "g", "i", "o", "n", ":", "f", "r", "e", "d">>, <<"r", "e", "g", "i", "o", "n", ":", "a", ":", "b">>, <<"r", "e", "g", "i", "o", "n", ":">>, <<":", "f", "r", "e", "d">>, <<"a", "l", "i", "g", "n">>,
     <<"l", "i", "n", "e", ":", "0">>, <<"v", "e", "r", "t", "i", "c", "a", "l", ":", "r", "l">>, <<"v", "e", "r", "t", "i", "c", "a", "l", ":", "l", "r">>, <<"v", "e", "r", "t", "i", "c", "a", "l", ":", "u", "p">>}

SettingsInputs == {Join(ts, <<" ">>) : ts \in SeqsUpTo(SettingTokens, MaxTokens)}

\* timing lines: every way to put these pieces together
TimingsInputs ==
    {lead \o ts1 \o gap1 \o arrow \o gap2 \o ts2 \o tail :
        lead  \in {<<>>, <<" ", "\t">>},
        ts1   \in {<<"0", "0", ":", "0", "1", ".", "0", "0", "0">>, <<"1", ":", "0", "0", ":", "0", "1", ".", "0", "0", "0">>, <<"2", ":", "3", "1", ".", "0", "2", ".", "5", "0", "0">>, <<"0", ":", "0", "1", ".", "0", "0", "0">>,
                   <<"9", "9", "9", "9", "9", "9", "9", "9", "9", "9", "9", "9", "9", "9", "9", "9", "9", "9", "9", "9", ":", "0", "0", ":", "0", "0", ".", "0", "0", "0">>, <<"x">>},
        gap1  \in {<<>>, <<" ">>, <<"x">>},
        arrow \in {Arrow, <<"-", ">">>, <<"-", "-", " ", ">">>},
        gap2  \in {<<>>, <<" ">>},
        ts2   \in {<<"0", "0", ":", "0", "2", ".", "0", "0", "0">>, <<"0", "0", ":", "0", "0", ":", "0", "2", ".", "5", "0", "0">>, <<"0", "0", ":", "6", "2", ".", "0", "0", "0">>,
                   <<"9", "9", "9", "9", "9", "9", "9", "9", "9", "9", "9", "9", "9", ":", "0", "0", ":", "0", "0", ".", "0", "0", "0">>},
        tail  \in {<<>>, <<" ", "r", "e", "g", "i", "o", "n", ":", "f", "r", "e", "d">>, <<"x">>, <<" ", "-", "-", ">", " ", "v", "e", "r", "t", "i", "c", "a", "l", ":", "r", "l", " ", "r", "e", "g", "i", "o", "n", ":", "a">>}}

-----------------------------------------------------------------------------
(* Specifications.                                                         *)

\* the locals of parse_file before the call has run
Idle ==
    /\ ret = Pending
    /\ lines = <<>>
    /\ description = NoString
    /\ blocks = <<>>
    /\ file_ctx = [in_header |-> FALSE, seen_cue |-> FALSE]
    /\ block_ctx = NewBlockContext
    /\ block_lines = <<>>
    /\ block_log = <<>>

\* parse_file(input) for every document, in either build profile
Init ==
    /\ overflow_checks \in BOOLEAN
    /\ call \in {[fn |-> "parse_file", arg |-> d] : d \in Documents}
    /\ pc = "start"
    /\ Idle

Next ==
    \/ ParseHeader
    \/ BeginBlock
    \/ ArrowLine
    \/ BlankLine
    \/ TextLine
    \/ EndOfInput
    \/ ReturnBlock
    \/ Finish

Spec == Init /\ [][Next]_vars

\* parse_timestamp(line) for every timestamp text, as the tests call it
TimestampInit ==
    /\ overflow_checks \in BOOLEAN
    /\ call \in {[fn |-> "parse_timestamp", arg |-> t] : t \in TimestampInputs}
    /\ pc = "call"
    /\ Idle

CallParseTimestamp ==
    /\ pc = "call"
    /\ call.fn = "parse_timestamp"
    /\ ret' = ParseTimestamp(call.arg, overflow_checks)
    /\ pc' = "done"
    /\ UNCHANGED <<overflow_checks, call, lines, description, blocks, file_ctx,
                   block_ctx, block_lines, block_log>>

TimestampNext == CallParseTimestamp

TimestampSpec == TimestampInit /\ [][TimestampNext]_vars

\* parse_settings(line) for every settings text
SettingsInit ==
    /\ overflow_checks \in BOOLEAN
    /\ call \in {[fn |-> "parse_settings", arg |-> s] : s \in SettingsInputs}
    /\ pc = "call"
    /\ Idle

CallParseSettings ==
    /\ pc = "call"
    /\ call.fn = "parse_settings"
    /\ ret' = Ok(ParseSettings(call.arg))
    /\ pc' = "done"
    /\ UNCHANGED <<overflow_checks, call, lines, description, blocks, file_ctx,
                   block_ctx, block_lines, block_log>>

SettingsNext == CallParseSettings

SettingsSpec == SettingsInit /\ [][SettingsNext]_vars

\* parse_cue_timings_settings(line) for every timing line
TimingsInit ==
    /\ overflow_checks \in BOOLEAN
    /\ call \in {[fn |-> "parse_cue_timings_settings", arg |-> l] : l \in TimingsInputs}
    /\ pc = "call"
    /\ Idle

CallParseCueTimingsSettings ==
    /\ pc = "call"
    /\ call.fn = "parse_cue_timings_settings"
    /\ ret' = ParseCueTimingsSettings(call.arg, overflow_checks)
    /\ pc' = "done"
    /\ UNCHANGED <<overflow_checks, call, lines, description, blocks, file_ctx,
                   block_ctx, block_lines, block_log>>

TimingsNext == CallParseCueTimingsSettings

TimingsSpec == TimingsInit /\ [][TimingsNext]_vars

\* parse_file(input) for the documents whose lines hold no timestamp, where
\* the cursor and the two loops are all that moves
FairInit ==
    /\ overflow_checks \in BOOLEAN
    /\ call \in {[fn |-> "parse_file", arg |-> d] : d \in LightDocuments}
    /\ pc = "start"
    /\ Idle

\* parse_file runs on: a call that can take a step takes one (the code is
\* sequential and nothing suspends it)
FairSpec == FairInit /\ [][Next]_vars /\ WF_vars(Next)

-----------------------------------------------------------------------------
(* What the claims speak of, stated on the text of the input alone.        *)

\* the first line of a text
FirstLine(text) ==
    IF IndexOf(text, "\n") = 0 THEN text
    ELSE SubSeq(text, 1, IndexOf(text, "\n") - 1)

\* the first line is a signature line: WEBVTT alone, or WEBVTT, a space or a
\* tab, and anything
HeaderAccepted(text) ==
    /\ StartsWith(FirstLine(text), Magic)
    /\ \/ Len(FirstLine(text)) = Len(Magic)
       \/ FirstLine(text)[Len(Magic) + 1] \in {" ", "\t"}

\* a text of ASCII digits only
AllDigits(s) == \A i \in 1..Len(s) : IsAsciiDigit(s[i])

\* the number a short run of digits writes
RECURSIVE NatOf(_)
NatOf(s) ==
    IF s = <<>> THEN 0
    ELSE NatOf(SubSeq(s, 1, Len(s) - 1)) * 10 + DigitVal(s[Len(s)])

\* exactly two digits writing a number up to 59
TwoDigitsUpTo59(s) == Len(s) = 2 /\ AllDigits(s) /\ NatOf(s) <= 59

\* Naturals of any size, as their decimal digits, least significant first and
\* without leading zeros (zero is the empty sequence).
\* the digits of d * m + c
RECURSIVE DecMulAdd(_, _, _)
DecMulAdd(d, m, c) ==
    IF d = <<>>
    THEN IF c = 0 THEN <<>> ELSE <<c % 10>> \o DecMulAdd(<<>>, m, c \div 10)
    ELSE <<(Head(d) * m + c) % 10>> \o DecMulAdd(Tail(d), m, (Head(d) * m + c) \div 10)

\* the number a run of digits of any length writes
RECURSIVE DecOfDigits(_)
DecOfDigits(s) ==
    IF s = <<>> THEN <<>>
    ELSE DecMulAdd(DecOfDigits(SubSeq(s, 1, Len(s) - 1)), 10, DigitVal(s[Len(s)]))

\* the number a u64 holds
RECURSIVE DecOfU64(_)
DecOfU64(x) ==
    IF x = <<>> THEN <<>> ELSE DecMulAdd(DecOfU64(Tail(x)), Byte, Head(x))

\* the text is exactly H:MM:SS.mmm: hours of one or more digits, minutes and
\* seconds of two digits up to 59, three digits of milliseconds
IsSecondsMillis(s) ==
    /\ Len(s) = 6
    /\ s[3] = "."
    /\ TwoDigitsUpTo59(SubSeq(s, 1, 2))
    /\ AllDigits(SubSeq(s, 4, 6))

IsThreeField(t) ==
    /\ Len(Split(t, ":")) = 3
    /\ Split(t, ":")[1] # <<>>
    /\ AllDigits(Split(t, ":")[1])
    /\ TwoDigitsUpTo59(Split(t, ":")[2])
    /\ IsSecondsMillis(Split(t, ":")[3])

\* the text is exactly MM:SS.mmm
IsTwoField(t) ==
    /\ Len(Split(t, ":")) = 2
    /\ TwoDigitsUpTo59(Split(t, ":")[1])
    /\ IsSecondsMillis(Split(t, ":")[2])

\* SS.mmm in milliseconds
SecondsMillis(s) == NatOf(SubSeq(s, 1, 2)) * 1000 + NatOf(SubSeq(s, 4, 6))

\* H*3,600,000 + MM*60,000 + SS*1,000 + mmm for a text H:MM:SS.mmm
ThreeFieldMillis(t) ==
    DecMulAdd(DecOfDigits(Split(t, ":")[1]), 3600000,
              NatOf(Split(t, ":")[2]) * 60000 + SecondsMillis(Split(t, ":")[3]))

\* MM*60,000 + SS*1,000 + mmm for a text MM:SS.mmm
TwoFieldMillis(t) ==
    NatOf(Split(t, ":")[1]) * 60000 + SecondsMillis(Split(t, ":")[2])

\* the digit groups before the first '.' are separated by ':' and are two,
\* led by two digits up to 59, or three
GroupsBeforePoint(t) == Split(SubSeq(t, 1, IndexOf(t, ".") - 1), ":")

IsWellSeparated(t) ==
    /\ IndexOf(t, ".") > 0
    /\ \A k \in 1..Len(GroupsBeforePoint(t)) :
          GroupsBeforePoint(t)[k] # <<>> /\ AllDigits(GroupsBeforePoint(t)[k])
    /\ \/ Len(GroupsBeforePoint(t)) = 2 /\ TwoDigitsUpTo59(GroupsBeforePoint(t)[1])
       \/ Len(GroupsBeforePoint(t)) = 3

\* the blocks parse_block has been called on: the finished ones, and the one a
\* panic ended
BlocksSeen ==
    [i \in 1..Len(block_log) |-> block_log[i].lines]
    \o (IF pc = "done" /\ ret.kind = "Panic" THEN <<block_lines>> ELSE <<>>)

\* a block whose first line starts with STYLE or REGION
IsStyleOrRegionLed(ls) ==
    /\ ls # <<>>
    /\ \/ StartsWith(ls[1], <<"S", "T", "Y", "L", "E">>)
       \/ StartsWith(ls[1], <<"R", "E", "G", "I", "O", "N">>)

\* such a block was met and no block before it was a cue
StyleOrRegionBeforeFirstCue ==
    \E i \in 1..Len(BlocksSeen) :
        /\ IsStyleOrRegionLed(BlocksSeen[i])
        /\ \A j \in 1..(i - 1) : ~block_log[j].block.some

\* in a block that gave a cue: where its timing line is, and the lines after
\* it up to the blank line or the end of input
TimingIndex(ls) == IF Contains(ls[1], Arrow) THEN 1 ELSE 2

BodyLinesOf(ls) ==
    SubSeq(ls, TimingIndex(ls) + 1,
           IF ls[Len(ls)] = <<>> THEN Len(ls) - 1 ELSE Len(ls))

-----------------------------------------------------------------------------
(* The claims.                                                             *)

\* C1: once the first line is accepted as a signature line, parse_file
\* returns a Document whatever the following lines are; it neither returns
\* an error nor aborts.
C1_NoFailureAfterHeader ==
    (pc = "done" /\ call.fn = "parse_file" /\ HeaderAccepted(call.arg))
        => ret.kind = "Ok"

\* C2: the text of every emitted cue is all the lines of its block after the
\* timing line, in order, joined by one newline, with no trailing newline; a
\* later line that contains "-->" is kept as text.
C2_TextIsAllBodyLines ==
    \A i \in 1..Len(block_log) :
        block_log[i].block.some =>
            block_log[i].block.val.cue.text
                = Join(BodyLinesOf(block_log[i].lines), <<"\n">>)

\* C3: parse_timestamp returns None unless the digit groups before the
\* decimal point are separated by ':' and are exactly two (led by two digits
\* up to 59) or exactly three.
C3_OnlySeparatedGroups ==
    (pc = "done" /\ call.fn = "parse_timestamp" /\ ~IsWellSeparated(call.arg))
        => ret = None

\* C4: on every text H:MM:SS.mmm, whatever the digit count and the magnitude
\* of H, parse_timestamp returns exactly H*3,600,000 + MM*60,000 + SS*1,000 +
\* mmm milliseconds (and an empty remainder); it never aborts, fails or wraps.
C4_AnyHoursExact ==
    (pc = "done" /\ call.fn = "parse_timestamp" /\ IsThreeField(call.arg))
        => /\ ret.kind = "Some"
           /\ ret.rest = <<>>
           /\ DecOfU64(ret.millis) = ThreeFieldMillis(call.arg)

\* C5: when a block led by STYLE or REGION comes before the first cue,
\* parse_file hands the caller an unimplemented-feature outcome of its own:
\* it does not return the Document as if the block were not there, and it
\* does not abort.
C5_StyleOrRegionSurfaced ==
    (pc = "done" /\ call.fn = "parse_file" /\ StyleOrRegionBeforeFirstCue)
        => (ret.kind # "Ok" /\ ret.kind # "Panic")

\* C6: when the first line does not start with WEBVTT (the empty input
\* included), parse_file returns the NoMagic error and no Document, whatever
\* the other lines are.
C6_NoMagic ==
    (pc = "done" /\ call.fn = "parse_file" /\ ~StartsWith(FirstLine(call.arg), Magic))
        => (ret = Err("NoMagic") /\ blocks = <<>>)

\* C6 happens: a text without the signature whose second line is a timing line
C6_Witness ==
    /\ pc = "done"
    /\ call.fn = "parse_file"
    /\ FirstLine(call.arg) = <<"v", "t", "t">>
    /\ Contains(call.arg, Arrow)
    /\ ret = Err("NoMagic")

\* the description the first line of a text asks for
HeaderRest(text) == Drop(FirstLine(text), Len(Magic))

\* C7: for a first line that starts with WEBVTT: exactly WEBVTT gives no
\* description; WEBVTT followed by a space or a tab gives as description the
\* rest of the line after that one character, nothing else trimmed; WEBVTT
\* followed by any other character gives the BadHeader error and no Document.
C7_Header ==
    (pc # "start" /\ call.fn = "parse_file" /\ StartsWith(FirstLine(call.arg), Magic))
        => IF HeaderRest(call.arg) = <<>>
           THEN /\ description = NoString
                /\ ret.kind # "Err"
                /\ ret.kind = "Ok" => ret.val.description = NoString
           ELSE IF Head(HeaderRest(call.arg)) \in {" ", "\t"}
           THEN /\ description = SomeString(Tail(HeaderRest(call.arg)))
                /\ ret.kind # "Err"
                /\ ret.kind = "Ok" =>
                       ret.val.description = SomeString(Tail(HeaderRest(call.arg)))
           ELSE /\ ret = Err("BadHeader")
                /\ blocks = <<>>

\* C7 happens: two spaces after the signature, the second one kept
C7_Witness ==
    /\ pc = "done"
    /\ call.fn = "parse_file"
    /\ FirstLine(call.arg) = <<"W", "E", "B", "V", "T", "T", " ", " ", "x">>
    /\ ret.kind = "Ok"
    /\ ret.val.description = SomeString(<<" ", "x">>)
    /\ ret.val.blocks # <<>>

\* C8: on exactly the text MM:SS.mmm, with MM and SS two digits up to 59 and
\* mmm three digits, parse_timestamp returns MM*60000 + SS*1000 + mmm
\* milliseconds and an empty remainder.
C8_TwoFieldExact ==
    (pc = "done" /\ call.fn = "parse_timestamp" /\ IsTwoField(call.arg))
        => ret = [kind |-> "Some",
                  millis |-> U64From(TwoFieldMillis(call.arg)),
                  rest |-> <<>>]

\* C8 happens: the largest two-field timestamp
C8_Witness ==
    /\ pc = "done"
    /\ call.fn = "parse_timestamp"
    /\ call.arg = <<"5", "9", ":", "5", "9", ".", "9", "9", "9">>
    /\ ret.kind = "Some"
    /\ ret.millis = U64From(3599999)
    /\ ret.rest = <<>>

\* C9: in every CueSettings the settings parser returns, a writing direction
\* other than Horizontal comes with no region, for every order and
\* repetition of the region: and vertical: tokens.
C9_VerticalHasNoRegion ==
    (pc = "done" /\ call.fn = "parse_settings")
        => (ret.val.writing_direction # "Horizontal" => ret.val.region = NoString)

\* C9 happens: a region token, then a vertical one
C9_Witness ==
    /\ pc = "done"
    /\ call.fn = "parse_settings"
    /\ call.arg = <<"r", "e", "g", "i", "o", "n", ":", "f", "r", "e", "d", " ", "v", "e", "r", "t", "i", "c", "a", "l", ":", "r", "l">>
    /\ ret.val = [region |-> NoString, writing_direction |-> "VerticalRight"]

\* where the first "-->" of a line starts
ArrowAt(line) ==
    Min({i \in 1..(Len(line) - 2) : SubSeq(line, i, i + 2) = Arrow})

\* the two timestamps of a timing line, each as parse_timestamp reads it
StartStamp(line) ==
    ParseTimestamp(TrimStart(SubSeq(line, 1, ArrowAt(line) - 1)), overflow_checks)

EndStamp(line) ==
    ParseTimestamp(TrimStart(Drop(line, ArrowAt(line) + 2)), overflow_checks)

\* a line with a timestamp on either side of its "-->"
IsTimingLine(line) ==
    /\ Contains(line, Arrow)
    /\ StartStamp(line).kind = "Some"
    /\ TrimStart(StartStamp(line).rest) = <<>>
    /\ EndStamp(line).kind = "Some"

\* the cue of a block carries the id and the timing line it is given
CueCarries(block, id, line) ==
    /\ block.some
    /\ block.val.cue.id = id
    /\ block.val.cue.start = StartStamp(line).millis
    /\ block.val.cue.end = EndStamp(line).millis
    /\ EndStamp(line).rest = <<>> => block.val.cue.settings = DefaultSettings

Consumed(text, rest) == SubSeq(text, 1, Len(text) - Len(rest))

\* a text that ends with a '.' and three digits
EndsWithMillis(p) ==
    /\ Len(p) >= 4
    /\ p[Len(p) - 3] = "."
    /\ AllDigits(SubSeq(p, Len(p) - 2, Len(p)))

\* C11: whenever parse_timestamp succeeds, the remainder is the suffix of the
\* text right after the third milliseconds digit, untrimmed: the consumed
\* prefix ends with '.' and three digits, prefix and remainder together are
\* the text, and the prefix alone gives the same duration.
C11_RemainderIsSuffix ==
    (pc = "done" /\ call.fn = "parse_timestamp" /\ ret.kind = "Some")
        => /\ Consumed(call.arg, ret.rest) \o ret.rest = call.arg
           /\ EndsWithMillis(Consumed(call.arg, ret.rest))
           /\ ParseTimestamp(Consumed(call.arg, ret.rest), overflow_checks)
                  = [kind |-> "Some", millis |-> ret.millis, rest |-> <<>>]

\* C11 happens: the remainder of the test, its leading space kept
C11_Witness ==
    /\ pc = "done"
    /\ call.fn = "parse_timestamp"
    /\ call.arg = <<"0", "2", ":", "3", "1", ".", "5", "0", "0", " ", "-", ">", " ", "0", "3", ":", "3", "1", ".", "5", "0", "0">>
    /\ ret = [kind |-> "Some", millis |-> U64From(151500),
              rest |-> <<" ", "-", ">", " ", "0", "3", ":", "3", "1", ".", "5", "0", "0">>]

\* the fields after the leading one and before the first '.'
MinuteSecondFields(t) == Tail(GroupsBeforePoint(t))

\* the digits that follow the first '.'
MillisField(t) ==
    SubSeq(t, IndexOf(t, ".") + 1, DigitRunEnd(t, IndexOf(t, ".") + 1) - 1)

\* C12: parse_timestamp returns None whenever a field after the leading one
\* and before the '.' is not exactly two digits writing a number up to 59, or
\* the digits after the '.' are not exactly three.
C12_BadFieldFails ==
    (/\ pc = "done"
     /\ call.fn = "parse_timestamp"
     /\ IndexOf(call.arg, ".") > 0
     /\ \/ \E k \in 1..Len(MinuteSecondFields(call.arg)) :
              ~TwoDigitsUpTo59(MinuteSecondFields(call.arg)[k])
        \/ Len(MillisField(call.arg)) # 3)
        => ret = None

\* the unimplemented-feature signal of the block recogniser
IsUnimplementedSignal(r) ==
    /\ r.kind = "Panic"
    /\ r.msg \in {"not implemented: WebVTT styles are unimplemented",
                  "not implemented: WebVTT regions are unimplemented"}

\* a cue block has been returned
CueEmitted == \E j \in 1..Len(block_log) : block_log[j].block.some

\* C13: the STYLE/REGION signal is raised only while no cue has been emitted:
\* once the block recogniser has returned a cue, no later block raises it.
C13_NoSignalAfterCue ==
    (call.fn = "parse_file" /\ CueEmitted) => ~IsUnimplementedSignal(ret)

\* the line of a block the timing parser may be tried on: line 1 when it
\* contains "-->", else line 2 when it does, else none (0)
Candidate(ls) ==
    IF ls = <<>> THEN 0
    ELSE IF Contains(ls[1], Arrow) THEN 1
    ELSE IF Len(ls) >= 2 /\ Contains(ls[2], Arrow) THEN 2
    ELSE 0

\* the block has a cue exactly when its candidate line is a timing line
HasCueOfCandidate(ls, some) ==
    some <=> (Candidate(ls) # 0 /\ IsTimingLine(ls[Candidate(ls)]))

\* a cue is the one of the candidate line of its block
IsCueOfCandidate(ls, cue) ==
    /\ cue.id = (IF Candidate(ls) = 2 THEN ls[1] ELSE <<>>)
    /\ cue.start = StartStamp(ls[Candidate(ls)]).millis
    /\ cue.end = EndStamp(ls[Candidate(ls)]).millis

\* C14: in a block the timing parser is tried at most once, on line 1 or on
\* line 2 after a line 1 without "-->", and the candidate cue is never
\* replaced: at every moment the block has a cue exactly when that one line
\* is a timing line, and the cue is the one of that line; a timing line
\* anywhere else creates none.
C14_OneTimingAttempt ==
    /\ \A i \in 1..Len(block_log) :
          /\ HasCueOfCandidate(block_log[i].lines, block_log[i].block.some)
          /\ block_log[i].block.some
                => IsCueOfCandidate(block_log[i].lines, block_log[i].block.val.cue)
    /\ pc \in {"block", "return"}
          => /\ block_ctx.seen_arrow <=> Candidate(block_lines) # 0
             /\ HasCueOfCandidate(block_lines, block_ctx.cue.some)
             /\ block_ctx.cue.some => IsCueOfCandidate(block_lines, block_ctx.cue.val)

\* C14 happens: a timing line on line 2 after a line 1 that contains "-->"
\* and is no timing line
C14_Witness ==
    /\ pc = "done"
    /\ ret.kind = "Ok"
    /\ ret.val.blocks = <<>>
    /\ Len(block_log) = 1
    /\ block_log[1].lines = <<<<"b", " ", "-", "-", ">", " ", "c">>, TimingLine>>
    /\ ~block_log[1].block.some

\* the lines of a text after its first line
BodyOf(text) == Tail(Split(text, "\n"))

\* the blank-line-delimited blocks of a body b: each starts at a non-empty
\* line that is the first line or follows an empty one, and runs through the
\* next empty line, or to the end when there is none
BlockStarts(b) ==
    {i \in 1..Len(b) : b[i] # <<>> /\ (i = 1 \/ b[i - 1] = <<>>)}

BlockEnd(b, i) ==
    IF {j \in i..Len(b) : b[j] = <<>>} = {} THEN Len(b)
    ELSE Min({j \in i..Len(b) : b[j] = <<>>})

InputBlock(b, i) == SubSeq(b, i, BlockEnd(b, i))

\* the text without the block that starts at line i of its body
WithoutBlock(text, i) ==
    Join(<<FirstLine(text)>> \o SubSeq(BodyOf(text), 1, i - 1)
             \o SubSeq(BodyOf(text), BlockEnd(BodyOf(text), i) + 1,
                       Len(BodyOf(text))),
         <<"\n">>)

\* the candidate line of a block fails timing parsing
CandidateFails(ls) ==
    /\ Candidate(ls) # 0
    /\ StartStamp(ls[Candidate(ls)]).kind # "Panic"
    /\ \/ StartStamp(ls[Candidate(ls)]).kind = "None"
       \/ TrimStart(StartStamp(ls[Candidate(ls)]).rest) # <<>>
       \/ EndStamp(ls[Candidate(ls)]).kind = "None"

\* C15: a block whose candidate "-->" line fails timing parsing yields no
\* block; no cue has a "-->" line in its id or its text; and the call returns
\* what it returns on the same text with that block removed.
C15_FailedTimingLeavesRest ==
    /\ \A i \in 1..Len(block_log) :
          /\ CandidateFails(block_log[i].lines) => ~block_log[i].block.some
          /\ block_log[i].block.some
                => /\ ~Contains(block_log[i].block.val.cue.id, Arrow)
                   /\ ~Contains(block_log[i].block.val.cue.text, Arrow)
    /\ (pc = "done" /\ call.fn = "parse_file")
          => \A i \in BlockStarts(BodyOf(call.arg)) :
                CandidateFails(InputBlock(BodyOf(call.arg), i))
                    => ret = ParseFile(WithoutBlock(call.arg, i), overflow_checks)

\* C15 happens: a cue, a block with a failing "-->" line, and the Document
\* with the cue alone
C15_Witness ==
    /\ pc = "done"
    /\ call.arg = Join(<<Magic, TimingLine, <<>>, <<"b", " ", "-", "-", ">", " ", "c">>, <<"H", "i">>>>, <<"\n">>)
    /\ ret.kind = "Ok"
    /\ Len(ret.val.blocks) = 1
    /\ Len(block_log) = 2
    /\ ~block_log[2].block.some
    /\ ret = ParseFile(Join(<<Magic, TimingLine, <<>>>>, <<"\n">>), overflow_checks)

\* a step of the call keeps the cursor or moves it forward
CursorForward == \E n \in 0..Len(lines) : lines' = Drop(lines, n)

\* the lines a finished parse_block has taken: at least one, ending with the
\* first empty line, or without an empty line and ending with the input
BlockEnded ==
    /\ block_lines # <<>>
    /\ \A k \in 1..(Len(block_lines) - 1) : block_lines[k] # <<>>
    /\ block_lines[Len(block_lines)] = <<>> \/ lines = <<>>

\* C16: parse_file terminates on every input: the cursor only moves forward,
\* every call of the block recogniser takes at least one line and ends at
\* its first empty line (taken) or at the end of input, and the driver
\* returns exactly when the cursor is exhausted.
C16_Terminates ==
    /\ <>(pc = "done")
    /\ [][pc # "start" => CursorForward]_vars
    /\ [](pc = "return" => BlockEnded)
    /\ [][pc = "loop" => (pc' = "done" <=> lines = <<>>)]_vars
    /\ []((pc = "done" /\ ret.kind = "Ok") => lines = <<>>)

\* C16 happens: a call that ran two blocks, the first ended by an empty
\* line and the second by the end of input, and returned
C16_Witness ==
    /\ pc = "done"
    /\ ret.kind = "Ok"
    /\ lines = <<>>
    /\ Len(block_log) = 2
    /\ block_log[1].lines = <<<<"H", "i">>, <<>>>>
    /\ block_log[2].lines = <<<<"b", " ", "-", "-", ">", " ", "c">>, <<"a">>>>

\* where the blocks of a body start in which a timing line is parsed on
\* line 1 or on line 2
CueStarts(b) ==
    {i \in BlockStarts(b) :
        /\ Candidate(InputBlock(b, i)) # 0
        /\ IsTimingLine(InputBlock(b, i)[Candidate(InputBlock(b, i))])}

\* the k-th element of a set of integers, in increasing order
Nth(S, k) == CHOOSE i \in S : Cardinality({j \in S : j < i}) = k - 1

\* C17: the blocks of the returned Document are, in input order and one for
\* one, the blank-line-delimited blocks of the input in which a timing line
\* is parsed on line 1 or on line 2: as many entries as such blocks, the k-th
\* entry being the cue of the k-th such block.
C17_BlocksInInputOrder ==
    (pc = "done" /\ call.fn = "parse_file" /\ ret.kind = "Ok")
        => /\ Len(ret.val.blocks) = Cardinality(CueStarts(BodyOf(call.arg)))
           /\ \A k \in 1..Len(ret.val.blocks) :
                 /\ ret.val.blocks[k].type = "Cue"
                 /\ IsCueOfCandidate(
                        InputBlock(BodyOf(call.arg), Nth(CueStarts(BodyOf(call.arg)), k)),
                        ret.val.blocks[k].cue)

\* C17 happens: two cue blocks, the first with an id and the second without
C17_Witness ==
    /\ pc = "done"
    /\ call.arg = Join(<<Magic, <<"H", "i">>, TimingLine, <<>>, TimingLine>>, <<"\n">>)
    /\ ret.kind = "Ok"
    /\ Len(ret.val.blocks) = 2
    /\ ret.val.blocks[1].cue.id = <<"H", "i">>
    /\ ret.val.blocks[2].cue.id = <<>>

\* a token as key:value, split at its first ':'
KeyOf(tok) == SubSeq(tok, 1, IndexOf(tok, ":") - 1)
ValueOf(tok) == Drop(tok, IndexOf(tok, ":"))

\* the tokens that are not ignored: region with a value, vertical:lr and
\* vertical:rl
IsRegionToken(tok) ==
    IndexOf(tok, ":") > 0 /\ KeyOf(tok) = <<"r", "e", "g", "i", "o", "n">> /\ ValueOf(tok) # <<>>

IsVerticalToken(tok) ==
    IndexOf(tok, ":") > 0 /\ KeyOf(tok) = <<"v", "e", "r", "t", "i", "c", "a", "l">>
        /\ ValueOf(tok) \in {<<"l", "r">>, <<"r", "l">>}

\* the greatest element of a non-empty set of integers
Max(S) == CHOOSE i \in S : \A j \in S : j <= i

\* what the tokens ask for: the direction of the last vertical token, and
\* the value of the last region token unless the direction is vertical
ExpectedDirection(ts) ==
    IF {k \in 1..Len(ts) : IsVerticalToken(ts[k])} = {} THEN "Horizontal"
    ELSE IF ValueOf(ts[Max({k \in 1..Len(ts) : IsVerticalToken(ts[k])})]) = <<"l", "r">>
    THEN "VerticalLeft"
    ELSE "VerticalRight"

ExpectedRegion(ts) ==
    IF ExpectedDirection(ts) # "Horizontal" THEN NoString
    ELSE IF {k \in 1..Len(ts) : IsRegionToken(ts[k])} = {} THEN NoString
    ELSE SomeString(ValueOf(ts[Max({k \in 1..Len(ts) : IsRegionToken(ts[k])})]))

\* C18: the settings parser returns settings for every text, and they are
\* decided by the region tokens with a value and the vertical:lr and
\* vertical:rl tokens alone: a region token gives everything after its first
\* ':', vertical:lr gives VerticalLeft and vertical:rl VerticalRight, and
\* every other token (no colon, empty key, empty value, another key, another
\* vertical value) changes nothing.
C18_IgnoredTokensChangeNothing ==
    (pc = "done" /\ call.fn = "parse_settings")
        => ret = Ok([region |-> ExpectedRegion(Split(call.arg, " ")),
                     writing_direction |-> ExpectedDirection(Split(call.arg, " "))])

\* C18 happens: a region whose value holds a ':' between two ignored tokens
C18_Witness ==
    /\ pc = "done"
    /\ call.fn = "parse_settings"
    /\ call.arg = <<"a", "l", "i", "g", "n", " ", "r", "e", "g", "i", "o", "n", ":", "a", ":", "b", " ", "v", "e", "r", "t", "i", "c", "a", "l", ":", "u", "p">>
    /\ ret = Ok([region |-> SomeString(<<"a", ":", "b">>), writing_direction |-> "Horizontal"])

\* the text starts with a timestamp of the grammar, MM:SS.mmm or H:MM:SS.mmm,
\* which ends three digits after the first '.', no digit following
StampLen(t) == IndexOf(t, ".") + 3

StartsWithStamp(t) ==
    /\ IndexOf(t, ".") > 0
    /\ StampLen(t) <= Len(t)
    /\ IsTwoField(SubSeq(t, 1, StampLen(t))) \/ IsThreeField(SubSeq(t, 1, StampLen(t)))
    /\ StampLen(t) = Len(t) \/ ~IsAsciiDigit(t[StampLen(t) + 1])

\* the milliseconds that timestamp writes, in decimal digits
StampMillis(t) ==
    IF IsTwoField(SubSeq(t, 1, StampLen(t)))
    THEN DecMulAdd(<<>>, 1, TwoFieldMillis(SubSeq(t, 1, StampLen(t))))
    ELSE ThreeFieldMillis(SubSeq(t, 1, StampLen(t)))

\* a line after its leading whitespace and start timestamp, and after the
\* whitespace and the arrow that follow
AfterStart(line) == TrimStart(Drop(TrimStart(line), StampLen(TrimStart(line))))
AfterArrow(line) == TrimStart(Drop(AfterStart(line), Len(Arrow)))

\* optional whitespace, a timestamp, optional whitespace, "-->", optional
\* whitespace, a timestamp, any tail
IsTimingsLine(line) ==
    /\ StartsWithStamp(TrimStart(line))
    /\ StartsWith(AfterStart(line), Arrow)
    /\ StartsWithStamp(AfterArrow(line))

\* C19: the cue timing parser succeeds exactly on the lines made of
\* optional whitespace, a timestamp, optional whitespace, "-->", optional
\* whitespace, a timestamp and any tail; start and end are then the values
\* of the two timestamps and the settings are the settings parser's result on
\* the tail; on every other line it returns nothing.
C19_TimingsExactlyOnShape ==
    (pc = "done" /\ call.fn = "parse_cue_timings_settings")
        => IF IsTimingsLine(call.arg)
           THEN /\ ret.kind = "Some"
                /\ DecOfU64(ret.start) = StampMillis(TrimStart(call.arg))
                /\ DecOfU64(ret.end) = StampMillis(AfterArrow(call.arg))
                /\ ret.settings
                      = ParseSettings(Drop(AfterArrow(call.arg),
                                           StampLen(AfterArrow(call.arg))))
           ELSE ret = None

\* the input ends while the signature is still expected: it is the empty
\* text or a proper prefix of WEBVTT
EndsInsideMagic(text) == Len(text) < Len(Magic) /\ StartsWith(Magic, text)

\* the error the first line of a text asks for, if any
ErrorOfFirstLine(text) ==
    IF ~StartsWith(FirstLine(text), Magic) THEN Err("NoMagic")
    ELSE IF ~HeaderAccepted(text) THEN Err("BadHeader")
    ELSE Pending

\* C20 as stated: an input that ends while the signature is still expected
\* gives UnexpectedEof, and an error returned by parse_file is decided by
\* the first line alone and is NoMagic, BadHeader or UnexpectedEof.
C20_UnexpectedEof ==
    (pc = "done" /\ call.fn = "parse_file")
        => /\ EndsInsideMagic(call.arg) => ret = Err("UnexpectedEof")
           /\ ret.kind = "Err"
                 => /\ ret.error \in {"NoMagic", "BadHeader", "UnexpectedEof"}
                    /\ ErrorOfFirstLine(call.arg).kind = "Err"

\* C20 as amended: an input that ends while the signature is still expected
\* gives NoMagic; parse_file returns an error exactly when the first line
\* asks for one, and the error is the NoMagic or the BadHeader of that line,
\* never UnexpectedEof.
C20_ErrorByFirstLine ==
    (pc = "done" /\ call.fn = "parse_file")
        => /\ EndsInsideMagic(call.arg) => ret = Err("NoMagic")
           /\ ret.kind = "Err" <=> ErrorOfFirstLine(call.arg).kind = "Err"
           /\ ret.kind = "Err" => ret = ErrorOfFirstLine(call.arg)
           /\ ret # Err("UnexpectedEof")

\* C20 happens: the input WEB, which ends inside the signature
C20_Witness ==
    /\ pc = "done"
    /\ call.fn = "parse_file"
    /\ call.arg = <<"W", "E", "B">>
    /\ ret = Err("NoMagic")

====
